---- MODULE Spec2Model ----
(***************************************************************************)
(* Model of the Windows verification engine of codesign-verify:            *)
(*   src/src/windows/mod.rs      Verifier, CleanupContext                   *)
(*   src/src/windows/context.rs  Context (leaf certificate queries)         *)
(* Every thread runs one verify() call, queries the Context it got and     *)
(* drops it.  The operating system is the environment: it hands out        *)
(* handles, decides the outcome of every native call and owns the          *)
(* thread-local last-error value.                                           *)
(*                                                                         *)
(* 32-bit words (HRESULT, WIN32_ERROR, DWORD) are written as the signed    *)
(* value of their bit pattern, so that `as u32` / `as i32` casts, which    *)
(* keep the bit pattern, keep the number.                                   *)
(***************************************************************************)
EXTENDS Integers, Sequences, FiniteSets, TLC

\* ------------------------------------------------------------------ bounds
MaxSerialLen == 3
MaxQueries == 2

\* ------------------------------------------------------- native constants
NULL == 0
INVALID_HANDLE_VALUE == -1
ERROR_SUCCESS == 0
\* 0x800B0100
TRUST_E_NOSIGNATURE == -2146762496
\* 0x80096002
TRUST_E_NO_SIGNER_CERT == -2146869246
\* 0x800B0101, an example of a trust failure other than "no signature"
CERT_E_EXPIRED == TRUST_E_NOSIGNATURE + 1
\* an example of a Win32 error code of a failed resource acquisition
ERROR_ACCESS_DENIED == ERROR_SUCCESS + 5

\* The failure statuses WinVerifyTrust reports in the model.
TrustFailures == {TRUST_E_NOSIGNATURE, CERT_E_EXPIRED}
\* The values a native call that does not promise to keep the thread's
\* last-error slot may leave in it.
ErrorCodes == {ERROR_SUCCESS, ERROR_ACCESS_DENIED, TRUST_E_NOSIGNATURE}

Threads == {"t1", "t2"}

\* ------------------------------------------------------------ certificates
SampleBytes == {1, 2, 3}

RECURSIVE SeqsUpTo(_, _)
SeqsUpTo(S, n) ==
    IF n = 0 THEN {<<>>}
    ELSE LET shorter == SeqsUpTo(S, n - 1)
         IN shorter \cup {Append(s, b) : s \in {x \in shorter : Len(x) = n - 1}, b \in S}

\* CERT_INFO.SerialNumber blobs (pbData[0..cbData-1]): every short blob over
\* the sample bytes, and some with bytes of two hex digits.
SerialBlobs == SeqsUpTo(SampleBytes, MaxSerialLen) \cup {<<171, 1>>, <<16, 15>>, <<255>>}
\* pbCertEncoded[0..cbCertEncoded-1]
EncodedBlobs == {<<48, 3, 1>>, <<48, 130, 171, 2>>}

Oids == {"2.5.4.3", "2.5.4.10", "2.5.4.11", "2.5.4.6"}
\* What the certificate encodes for an attribute: a wide string, <<>> if absent.
MsCorp == <<"M", "S">>
MsPca == <<"P", "C", "A">>
NameTable ==
    [b \in EncodedBlobs |->
     IF Len(b) = 3
     THEN
      [issuer |-> [o \in Oids |-> IF o = "2.5.4.10" THEN MsCorp
                                  ELSE IF o = "2.5.4.3" THEN MsPca ELSE <<>>],
       subject |-> [o \in Oids |-> IF o = "2.5.4.10" THEN MsCorp ELSE <<>>]]
     ELSE
      [issuer |-> [o \in Oids |-> <<>>],
       subject |-> [o \in Oids |-> IF o = "2.5.4.6" THEN <<"U", "S">> ELSE <<>>]]]

\* The CERT_CONTEXT a leaf pointer refers to: the names are the ones its
\* encoding holds.  Every serial with one encoding, every encoding with one
\* serial.
Cert(sn, b) == [SerialNumber |-> sn, CertEncoded |-> b, names |-> NameTable[b]]
Certs == {Cert(sn, <<48, 3, 1>>) : sn \in SerialBlobs}
         \cup {Cert(<<1, 2, 3>>, b) : b \in EncodedBlobs}

\* ------------------------------------------------------------- formatting
HexDigits == <<"0", "1", "2", "3", "4", "5", "6", "7",
               "8", "9", "a", "b", "c", "d", "e", "f">>

\* format!("{b:02x}")
Hex02 == [b \in 0..255 |-> <<HexDigits[(b \div 16) + 1], HexDigits[(b % 16) + 1]>>]

\* bytes.iter().fold(String::new(), |s, byte| s + &format!("{byte:02x}"))
RECURSIVE FoldHex(_, _, _)
FoldHex(bytes, i, s) ==
    IF i > Len(bytes) THEN s
    ELSE FoldHex(bytes, i + 1, s \o Hex02[bytes[i]])

RECURSIVE FoldSerial(_, _, _)
FoldSerial(blob, i, v) ==
    IF i > Len(blob) THEN v
    ELSE FoldSerial(blob, i + 1, Hex02[blob[i]] \o v)

\* serial without the byte-order correction
serial_unreversed(cert) == FoldHex(cert.SerialNumber, 1, <<>>)

\* Context::serial: blob.iter().fold(String::new(), |v, s| format!("{s:02x}{v}"))
serial(cert) == FoldSerial(cert.SerialNumber, 1, <<>>)

\* ----------------------------------------------------------------- digests
\* The digests of the sha1 and sha2 crates (FIPS 180-4).  A 32-bit word is
\* the pair <<high, low>> of its 16-bit halves.
Pow2(n) == <<1, 2, 4, 8, 16, 32, 64, 128, 256, 512, 1024, 2048, 4096, 8192, 16384,
             32768, 65536>>[n + 1]
RECURSIVE Xor16(_, _, _)
\* bitwise xor / and of two n-bit numbers
Xor16(a, b, n) ==
    IF n = 0 THEN 0 ELSE ((a + b) % 2) + 2 * Xor16(a \div 2, b \div 2, n - 1)
RECURSIVE And16(_, _, _)
And16(a, b, n) ==
    IF n = 0 THEN 0 ELSE ((a % 2) * (b % 2)) + 2 * And16(a \div 2, b \div 2, n - 1)
\* wrapping_add
Add32(a, b) ==
    LET lo == a[2] + b[2]
        hi == a[1] + b[1] + (lo \div 65536)
    IN <<hi % 65536, lo % 65536>>
Xor32(a, b) == <<Xor16(a[1], b[1], 16), Xor16(a[2], b[2], 16)>>
And32(a, b) == <<And16(a[1], b[1], 16), And16(a[2], b[2], 16)>>
Not32(a) == <<65535 - a[1], 65535 - a[2]>>
\* rotate_left by n < 32
RotL(a, n) ==
    LET m == n % 16
        x == IF n >= 16 THEN <<a[2], a[1]>> ELSE a
    IN <<((x[1] * Pow2(m)) % 65536) + (x[2] \div Pow2(16 - m)),
         ((x[2] * Pow2(m)) % 65536) + (x[1] \div Pow2(16 - m))>>
RotR(a, n) == RotL(a, 32 - n)
\* shift right by n < 16
ShR(a, n) == <<a[1] \div Pow2(n), (a[2] \div Pow2(n)) + ((a[1] % Pow2(n)) * Pow2(16 - n))>>
WordBytes(w) == <<w[1] \div 256, w[1] % 256, w[2] \div 256, w[2] % 256>>

Zeros(n) == [i \in 1..n |-> 0]
\* The message, the byte 0x80, zeros up to 56 mod 64, the bit length in 8
\* bytes, big-endian.
PadMessage(msg) ==
    LET bits == 8 * Len(msg)
        k == (119 - (Len(msg) % 64)) % 64
    IN msg \o <<128>> \o Zeros(k) \o Zeros(4)
           \o <<(bits \div 16777216) % 256, (bits \div 65536) % 256,
                (bits \div 256) % 256, bits % 256>>
RECURSIVE WordsFrom(_, _, _)
\* The n big-endian words of the padded message that start after byte `at`.
WordsFrom(padded, at, n) ==
    IF n = 0 THEN <<>>
    ELSE <<<<padded[at + 1] * 256 + padded[at + 2],
             padded[at + 3] * 256 + padded[at + 4]>>>>
         \o WordsFrom(padded, at + 4, n - 1)
\* The 16 words of block n (from 0) of the padded message.
BlockWords(padded, n) == WordsFrom(padded, 64 * n, 16)
RECURSIVE DigestBytes(_, _)
DigestBytes(h, i) == IF i > Len(h) THEN <<>> ELSE WordBytes(h[i]) \o DigestBytes(h, i + 1)

Sha1Initial == <<<<26437, 8961>>, <<61389, 43913>>, <<39098, 56574>>, <<4146, 21622>>, <<50130, 57840>>>>
Sha1K == <<<<23170, 31129>>, <<28377, 60321>>, <<36635, 48348>>, <<51810, 49622>>>>
RECURSIVE Sha1Schedule(_, _)
\* The message schedule: the block's 16 words, grown to n words.
Sha1Schedule(w, n) ==
    IF Len(w) >= n THEN w
    ELSE IF Len(w) + 1 = n
    THEN Append(w, RotL(Xor32(Xor32(w[n - 3], w[n - 8]), Xor32(w[n - 14], w[n - 16])), 1))
    ELSE Sha1Schedule(Sha1Schedule(w, (Len(w) + n) \div 2), n)
Sha1F(t, b, c, d) ==
    IF t <= 20 THEN Xor32(And32(b, c), And32(Not32(b), d))
    ELSE IF t <= 40 THEN Xor32(Xor32(b, c), d)
    ELSE IF t <= 60 THEN Xor32(Xor32(And32(b, c), And32(b, d)), And32(c, d))
    ELSE Xor32(Xor32(b, c), d)
\* One round, number t, on the working variables v = <<a, b, c, d, e>>.
Sha1Round(w, t, v) ==
    LET temp == Add32(Add32(Add32(RotL(v[1], 5), Sha1F(t, v[2], v[3], v[4])),
                            Add32(v[5], Sha1K[((t - 1) \div 20) + 1])),
                      w[t])
    IN <<temp, v[1], RotL(v[2], 30), v[3], v[4]>>
RECURSIVE Sha1Rounds(_, _, _)
\* The working variables before round 1 and after each round up to round n - 1.
Sha1Rounds(w, vs, n) ==
    IF Len(vs) >= n THEN vs
    ELSE IF Len(vs) + 1 = n THEN Append(vs, Sha1Round(w, Len(vs), vs[Len(vs)]))
    ELSE Sha1Rounds(w, Sha1Rounds(w, vs, (Len(vs) + n) \div 2), n)
RECURSIVE Sha1Blocks(_, _, _)
Sha1Blocks(padded, n, h) ==
    IF 64 * n >= Len(padded) THEN h
    ELSE LET v == Sha1Rounds(Sha1Schedule(BlockWords(padded, n), 80), <<h>>, 81)[81]
         IN Sha1Blocks(padded, n + 1, <<Add32(h[1], v[1]), Add32(h[2], v[2]), Add32(h[3], v[3]),
                                         Add32(h[4], v[4]), Add32(h[5], v[5])>>)
Sha1Compute(msg) ==
    DigestBytes(Sha1Blocks(PadMessage(msg), 0, Sha1Initial), 1)

Sha256Initial == <<<<27145, 58983>>, <<47975, 44677>>, <<15470, 62322>>, <<42319, 62778>>,
      <<20750, 21119>>, <<39685, 26764>>, <<8067, 55723>>, <<23520, 52505>>>>
Sha256K == <<<<17034, 12184>>, <<28983, 17553>>, <<46528, 64463>>, <<59829, 56229>>,
      <<14678, 49755>>, <<23025, 4593>>, <<37439, 33444>>, <<43804, 24277>>,
      <<55303, 43672>>, <<4739, 23297>>, <<9265, 34238>>, <<21772, 32195>>,
      <<29374, 23924>>, <<32990, 45566>>, <<39900, 1703>>, <<49563, 61812>>,
      <<58523, 27073>>, <<61374, 18310>>, <<4033, 40390>>, <<9228, 41420>>,
      <<11753, 11375>>, <<19060, 33962>>, <<23728, 43484>>, <<30457, 35034>>,
      <<38974, 20818>>, <<43057, 50797>>, <<45059, 10184>>, <<48985, 32711>>,
      <<50912, 3059>>, <<54695, 37191>>, <<1738, 25425>>, <<5161, 10599>>,
      <<10167, 2693>>, <<11803, 8504>>, <<19756, 28156>>, <<21304, 3347>>,
      <<25866, 29524>>, <<30314, 2747>>, <<33218, 51502>>, <<37490, 11397>>,
      <<41663, 59553>>, <<43034, 26187>>, <<49739, 35696>>, <<51052, 20899>>,
      <<53650, 59417>>, <<54937, 1572>>, <<62478, 13701>>, <<4202, 41072>>,
      <<6564, 49430>>, <<7735, 27656>>, <<10056, 30540>>, <<13488, 48309>>,
      <<14620, 3251>>, <<20184, 43594>>, <<23452, 51791>>, <<26670, 28659>>,
      <<29839, 33518>>, <<30885, 25455>>, <<33992, 30740>>, <<36039, 520>>,
      <<37054, 65530>>, <<42064, 27883>>, <<48889, 41975>>, <<50801, 30962>>>>
SmallSigma0(x) == Xor32(Xor32(RotR(x, 7), RotR(x, 18)), ShR(x, 3))
SmallSigma1(x) == Xor32(Xor32(RotR(x, 17), RotR(x, 19)), ShR(x, 10))
BigSigma0(x) == Xor32(Xor32(RotR(x, 2), RotR(x, 13)), RotR(x, 22))
BigSigma1(x) == Xor32(Xor32(RotR(x, 6), RotR(x, 11)), RotR(x, 25))
Ch(x, y, z) == Xor32(And32(x, y), And32(Not32(x), z))
Maj(x, y, z) == Xor32(Xor32(And32(x, y), And32(x, z)), And32(y, z))
RECURSIVE Sha256Schedule(_, _)
\* The message schedule: the block's 16 words, grown to n words.
Sha256Schedule(w, n) ==
    IF Len(w) >= n THEN w
    ELSE IF Len(w) + 1 = n
    THEN Append(w, Add32(Add32(SmallSigma1(w[n - 2]), w[n - 7]),
                         Add32(SmallSigma0(w[n - 15]), w[n - 16])))
    ELSE Sha256Schedule(Sha256Schedule(w, (Len(w) + n) \div 2), n)
\* One round, number t, on the working variables v = <<a, b, c, d, e, f, g, h>>.
Sha256Round(w, t, v) ==
    LET t1 == Add32(Add32(Add32(v[8], BigSigma1(v[5])), Ch(v[5], v[6], v[7])),
                    Add32(Sha256K[t], w[t]))
        t2 == Add32(BigSigma0(v[1]), Maj(v[1], v[2], v[3]))
    IN <<Add32(t1, t2), v[1], v[2], v[3], Add32(v[4], t1), v[5], v[6], v[7]>>
RECURSIVE Sha256Rounds(_, _, _)
\* The working variables before round 1 and after each round up to round n - 1.
Sha256Rounds(w, vs, n) ==
    IF Len(vs) >= n THEN vs
    ELSE IF Len(vs) + 1 = n THEN Append(vs, Sha256Round(w, Len(vs), vs[Len(vs)]))
    ELSE Sha256Rounds(w, Sha256Rounds(w, vs, (Len(vs) + n) \div 2), n)
RECURSIVE Sha256Blocks(_, _, _)
Sha256Blocks(padded, n, h) ==
    IF 64 * n >= Len(padded) THEN h
    ELSE LET v == Sha256Rounds(Sha256Schedule(BlockWords(padded, n), 64), <<h>>, 65)[65]
         IN Sha256Blocks(padded, n + 1, <<Add32(h[1], v[1]), Add32(h[2], v[2]), Add32(h[3], v[3]),
                                           Add32(h[4], v[4]), Add32(h[5], v[5]), Add32(h[6], v[6]),
                                           Add32(h[7], v[7]), Add32(h[8], v[8])>>)
Sha256Compute(msg) ==
    DigestBytes(Sha256Blocks(PadMessage(msg), 0, Sha256Initial), 1)

\* The digests of the encodings the sample certificates carry, computed once.
Sha1OfSamples == [msg \in EncodedBlobs |-> Sha1Compute(msg)]
Sha256OfSamples == [msg \in EncodedBlobs |-> Sha256Compute(msg)]

\* sha1::Sha1::digest(cert_data): 20 bytes
Sha1Digest(msg) ==
    IF msg \in EncodedBlobs THEN Sha1OfSamples[msg] ELSE Sha1Compute(msg)
\* sha2::Sha256::digest(cert_data): 32 bytes
Sha256Digest(msg) ==
    IF msg \in EncodedBlobs THEN Sha256OfSamples[msg] ELSE Sha256Compute(msg)

\* Context::sha1_thumbprint
sha1_thumbprint(cert) == FoldHex(Sha1Digest(cert.CertEncoded), 1, <<>>)
\* Context::sha256_thumbprint
sha256_thumbprint(cert) == FoldHex(Sha256Digest(cert.CertEncoded), 1, <<>>)

\* CertGetNameStringW(cert, CERT_NAME_ATTR_TYPE, flag, oid, buf, n): the
\* number of characters of the attribute's value, terminating NUL included.
CertGetNameStringW(cert, issuer, oid) ==
    Len((IF issuer THEN cert.names.issuer ELSE cert.names.subject)[oid]) + 1

None == <<"None">>
Some(v) == <<"Some", v>>

\* Context::get_oid_name
get_oid_name(cert, issuer, oid) ==
    LET len == CertGetNameStringW(cert, issuer, oid)
        buf == (IF issuer THEN cert.names.issuer ELSE cert.names.subject)[oid] \o <<"NUL">>
    IN IF len = 1 THEN None ELSE Some(SubSeq(buf, 1, len - 1))

\* The native calls one get_oid_name makes: the call that asks for the length
\* and, when the attribute is there, the call that fills the buffer.
get_oid_name_calls(cert, issuer, oid) ==
    LET len == CertGetNameStringW(cert, issuer, oid)
        call == [call |-> "CertGetNameStringW",
                 how |-> (IF issuer THEN "issuer " ELSE "subject ") \o oid,
                 h |-> NULL, status |-> len]
    IN IF len = 1 THEN <<call>> ELSE <<call, call>>

\* The native calls of subject_name (issuer = FALSE) or issuer_name, in the
\* order of the fields of Name.
name_calls(cert, issuer) ==
    get_oid_name_calls(cert, issuer, "2.5.4.3")
    \o get_oid_name_calls(cert, issuer, "2.5.4.10")
    \o get_oid_name_calls(cert, issuer, "2.5.4.11")
    \o get_oid_name_calls(cert, issuer, "2.5.4.6")

\* Context::subject_name
subject_name(cert) ==
    [common_name |-> get_oid_name(cert, FALSE, "2.5.4.3"),
     organization |-> get_oid_name(cert, FALSE, "2.5.4.10"),
     organization_unit |-> get_oid_name(cert, FALSE, "2.5.4.11"),
     country |-> get_oid_name(cert, FALSE, "2.5.4.6")]

\* Context::issuer_name
issuer_name(cert) ==
    [common_name |-> get_oid_name(cert, TRUE, "2.5.4.3"),
     organization |-> get_oid_name(cert, TRUE, "2.5.4.10"),
     organization_unit |-> get_oid_name(cert, TRUE, "2.5.4.11"),
     country |-> get_oid_name(cert, TRUE, "2.5.4.6")]

\* ------------------------------------------------------------------- state
VARIABLES
    arg,         \* per thread: what the caller constructs the Verifier from
    verifier,    \* per thread: the Verifier, or the error for_pid returned
    target,      \* per thread: the file behind Verifier.0 as the system sees it
    pc,          \* per thread: the place in the code
    lastError,   \* per thread: the value GetLastError() returns
    vi,          \* per thread: the locals of verify_internal
    ctx,         \* per thread: the CleanupContext of verify_catalog_signed
    context,     \* per thread: the live Context object, or NoContext
    result,      \* per thread: what verify() returned, or NoResult
    answers,     \* per thread: what each query of the Context last returned
    asked,       \* per thread: the queries made, in order
    log,         \* per thread: the native calls made, in order
    open,        \* the handles the system holds open
    nextHandle   \* the next handle value the system hands out

vars == <<arg, verifier, target, pc, lastError, vi, ctx, context, result, answers, asked, log,
          open, nextHandle>>

\* The file the trust engine is asked about: the state of its embedded
\* signature, whether a catalog lists its hash, and the leaf certificate of
\* the signer the provider data holds when there is one.
Targets == [embedded : {"trusted", "nosig", "failed"}, cataloged : BOOLEAN, signer : Certs]
DefaultCert == Cert(<<1, 2, 3>>, <<48, 3, 1>>)
DefaultTarget == [embedded |-> "trusted", cataloged |-> FALSE, signer |-> DefaultCert]

\* ------------------------------------------------------------------ paths
\* UTF-16 code units: 'a', 'b', NUL, a lone high surrogate, a surrogate pair,
\* and U+FFFD.
NUL == 0
HighSurrogates == {55357}
LowSurrogates == {56832}
REPLACEMENT_CHARACTER == 65533

\* Paths a caller hands to for_file (an OsStr: any units).
FilePaths == {<<97>>, <<97, 98>>, <<97, NUL, 98>>}
\* Image paths the system reports for a process.
ImagePaths == {<<97, 98>>, <<97, 55357>>, <<55357, 56832, 97>>}

RECURSIVE from_utf16_lossy(_, _)
\* String::from_utf16_lossy, then the units of the String it gives: a
\* surrogate that is not part of a pair becomes U+FFFD.
from_utf16_lossy(units, i) ==
    IF i > Len(units) THEN <<>>
    ELSE IF units[i] \in HighSurrogates /\ i < Len(units) /\ units[i + 1] \in LowSurrogates
         THEN <<units[i], units[i + 1]>> \o from_utf16_lossy(units, i + 2)
    ELSE IF units[i] \in HighSurrogates \cup LowSurrogates
         THEN <<REPLACEMENT_CHARACTER>> \o from_utf16_lossy(units, i + 1)
    ELSE <<units[i]>> \o from_utf16_lossy(units, i + 1)

\* Verifier::for_file: encode_wide() and a terminating NUL.
for_file(path) == Append(path, NUL)

\* The string a native call reads from a pointer to wide characters: the
\* units before the first NUL.
RECURSIVE NativeString(_, _)
NativeString(units, i) ==
    IF i > Len(units) \/ units[i] = NUL THEN <<>>
    ELSE <<units[i]>> \o NativeString(units, i + 1)

\* What the caller constructs a Verifier from.
FileArg(path) == [kind |-> "file", path |-> path, opens |-> FALSE, queries |-> FALSE]
\* A process id, as the system sees it: whether the process can be opened,
\* whether its image name can be queried, and the image path.
PidArg(opens, queries, image) ==
    [kind |-> "pid", path |-> image, opens |-> opens, queries |-> queries]
Args == {FileArg(p) : p \in FilePaths}
        \cup {PidArg(TRUE, TRUE, p) : p \in ImagePaths}
        \cup {PidArg(FALSE, FALSE, <<97, 98>>), PidArg(TRUE, FALSE, <<97, 98>>)}

NoVerifier == [made |-> FALSE, path |-> <<>>, err |-> [tag |-> "None", error |-> "", code |-> 0]]

NoContext == [data |-> NULL, leaf_cert_ptr |-> <<>>, live |-> FALSE]
NoGuard == [h_file |-> NULL, h_cat_admin |-> NULL, h_cat_info |-> NULL, live |-> FALSE]
NoResult == [tag |-> "None", error |-> "", code |-> 0]
Ok == [tag |-> "Ok", error |-> "", code |-> 0]
\* Error::OsError(code)
OsError(code) == [tag |-> "Err", error |-> "OsError", code |-> code]
\* Error::Unsigned
Unsigned == [tag |-> "Err", error |-> "Unsigned", code |-> 0]
\* Error::LeafCertNotFound
LeafCertNotFound == [tag |-> "Err", error |-> "LeafCertNotFound", code |-> 0]

VOk == [ok |-> TRUE, err |-> 0]
VErr(code) == [ok |-> FALSE, err |-> code]
NoLocals == [request |-> "", pcwszFilePath |-> <<>>, status |-> 0, hWVTStateData |-> NULL,
             made |-> VOk, ret |-> VOk]

Queries == {"subject_name", "issuer_name", "serial", "sha1_thumbprint", "sha256_thumbprint"}
NotAsked == <<>>

\* One native call: its name, its variant and the handle it is about.
Ev(call, how, h) == [call |-> call, how |-> how, h |-> h, status |-> 0]
\* A WinVerifyTrust call with WTD_STATEACTION_VERIFY: the request it was given,
\* the state handle it left in hWVTStateData and the status it returned.
TrustEv(request, h, status) ==
    [call |-> "WinVerifyTrust", how |-> request, h |-> h, status |-> status]

\* Error::InvalidPath
InvalidPath == [tag |-> "Err", error |-> "InvalidPath", code |-> 0]

\* The threads of `running` each hold a Verifier made by for_file.
InitWith(running) ==
    /\ arg = [t \in Threads |-> FileArg(<<97>>)]
    /\ verifier = [t \in Threads |-> [NoVerifier EXCEPT !.made = TRUE,
                                                        !.path = for_file(arg[t].path)]]
    /\ target \in [Threads -> Targets]
    /\ \A t \in Threads \ running : target[t] = DefaultTarget
    \* only a signer whose certificate can be handed out is varied
    /\ \A t \in Threads :
           target[t].embedded = "failed" => target[t].signer = DefaultCert
    /\ pc = [t \in Threads |-> IF t \in running THEN "idle" ELSE "off"]
    /\ lastError = [t \in Threads |-> ERROR_SUCCESS]
    /\ vi = [t \in Threads |-> NoLocals]
    /\ ctx = [t \in Threads |-> NoGuard]
    /\ context = [t \in Threads |-> NoContext]
    /\ result = [t \in Threads |-> NoResult]
    /\ answers = [t \in Threads |-> [q \in Queries |-> NotAsked]]
    /\ asked = [t \in Threads |-> <<>>]
    /\ log = [t \in Threads |-> <<>>]
    /\ open = {}
    /\ nextHandle = 1

\* One thread calls verify() on a fresh Verifier.
Init == InitWith({"t1"})

\* ----------------------------------------------------------- Context (1/2)
\* close_data(handle): WinVerifyTrust with WTD_STATEACTION_CLOSE.
close_data(handle) == <<Ev("WinVerifyTrust", "close", handle)>>

\* The helper calls Context::new makes when the first `nulls - 1` lookups
\* succeed (nulls = 0: all three succeed).
HelperCalls(nulls) ==
    LET all == <<Ev("WTHelperProvDataFromStateData", "", NULL),
                 Ev("WTHelperGetProvSignerFromChain", "", NULL),
                 Ev("WTHelperGetProvCertFromChain", "", NULL)>>
    IN IF nulls = 0 THEN all ELSE SubSeq(all, 1, nulls)

\* Context::new(state_data), the drop of `ret` on its error returns included.
ContextNew(t) ==
    /\ pc[t] = "ctxnew"
    /\ LET state_data == vi[t].hWVTStateData IN
       \E nulls \in 0..3, e \in {lastError[t]} \cup ErrorCodes :
          /\ state_data = NULL => nulls = 1
          /\ lastError' = [lastError EXCEPT ![t] = e]
          /\ IF nulls = 0
             THEN \E c \in {target[t].signer} :
                    /\ context' = [context EXCEPT ![t] =
                          [data |-> state_data,
                           leaf_cert_ptr |-> [owner |-> state_data, cert |-> c],
                           live |-> TRUE]]
                    /\ vi' = [vi EXCEPT ![t].made = VOk]
                    /\ log' = [log EXCEPT ![t] = @ \o HelperCalls(nulls)]
                    /\ open' = open
             ELSE /\ context' = context
                  /\ vi' = [vi EXCEPT ![t].made = VErr(TRUST_E_NO_SIGNER_CERT)]
                  /\ log' = [log EXCEPT ![t] = @ \o HelperCalls(nulls) \o close_data(state_data)]
                  /\ open' = open \ {state_data}
    /\ pc' = [pc EXCEPT ![t] = "vi_tail"]
    /\ UNCHANGED <<arg, verifier, target, ctx, result, answers, asked, nextHandle>>

\* ------------------------------------------------------------ Verifier
\* Verifier::verify, up to the call of verify_internal(Some(file_info), None).
VerifyStart(t) ==
    /\ pc[t] = "idle"
    /\ verifier[t].made
    /\ vi' = [vi EXCEPT ![t] = [NoLocals EXCEPT
                 !.request = "file",
                 !.pcwszFilePath = NativeString(verifier[t].path, 1)]]
    /\ pc' = [pc EXCEPT ![t] = "wvt"]
    /\ UNCHANGED <<arg, verifier, target, lastError, ctx, context, result, answers, asked, log,
                   open, nextHandle>>

\* The statuses the trust engine can report for a request.
TrustStatuses(t) ==
    IF vi[t].request = "file"
    THEN CASE target[t].embedded = "trusted" -> {ERROR_SUCCESS}
           [] target[t].embedded = "nosig" -> {TRUST_E_NOSIGNATURE}
           [] OTHER -> TrustFailures \ {TRUST_E_NOSIGNATURE}
    ELSE {ERROR_SUCCESS} \cup TrustFailures

\* verify_internal: WinVerifyTrust(.., WTD_STATEACTION_VERIFY).  A successful
\* call leaves a state handle in data.hWVTStateData; a failed one may.  The
\* call leaves its failure status in the thread's last-error slot.
WinVerifyTrustVerify(t) ==
    /\ pc[t] = "wvt"
    /\ \E status \in TrustStatuses(t), h \in {NULL, nextHandle} :
          /\ status = ERROR_SUCCESS => h # NULL
          /\ vi' = [vi EXCEPT ![t].status = status, ![t].hWVTStateData = h]
          /\ open' = IF h # NULL THEN open \cup {h} ELSE open
          /\ nextHandle' = IF h # NULL THEN nextHandle + 1 ELSE nextHandle
          /\ lastError' = [lastError EXCEPT ![t] =
                              IF status # ERROR_SUCCESS THEN status ELSE @]
          /\ log' = [log EXCEPT ![t] = Append(@, TrustEv(vi[t].request, h, status))]
    /\ pc' = [pc EXCEPT ![t] = "ctxnew"]
    /\ UNCHANGED <<arg, verifier, target, ctx, context, result, answers, asked>>

\* a failure path that keeps the Context it made instead of dropping it
VerifyInternalReturn_KeepsContext(t) ==
    /\ pc[t] = "vi_tail"
    /\ IF vi[t].status = ERROR_SUCCESS
       THEN /\ vi' = [vi EXCEPT ![t].ret = vi[t].made]
            /\ UNCHANGED <<lastError, context, log, open>>
       ELSE /\ log' = [log EXCEPT ![t] = Append(@, Ev("GetLastError", "", NULL))]
            /\ UNCHANGED <<lastError, context, open>>
            /\ vi' = [vi EXCEPT ![t].ret = VErr(lastError[t])]
    /\ pc' = [pc EXCEPT ![t] = IF vi[t].request = "file" THEN "verify_match"
                                ELSE "catalog_match"]
    /\ UNCHANGED <<arg, verifier, target, ctx, result, answers, asked, nextHandle>>

\* a failure path that closes the state data itself, besides the drop of
\* the Context made for that purpose
VerifyInternalReturn_ClosesAgain(t) ==
    /\ pc[t] = "vi_tail"
    /\ IF vi[t].status = ERROR_SUCCESS
       THEN /\ vi' = [vi EXCEPT ![t].ret = vi[t].made]
            /\ UNCHANGED <<lastError, context, log, open>>
       ELSE /\ \E e \in {lastError[t]} \cup ErrorCodes :
                  lastError' = [lastError EXCEPT ![t] = e]
            /\ log' = [log EXCEPT ![t] =
                         @ \o (IF vi[t].made.ok THEN close_data(context[t].data) ELSE <<>>)
                           \o close_data(vi[t].hWVTStateData)
                           \o <<Ev("GetLastError", "", NULL)>>]
            /\ open' = open \ {vi[t].hWVTStateData}
            /\ context' = [context EXCEPT ![t] = NoContext]
            /\ vi' = [vi EXCEPT ![t].ret = VErr(lastError'[t])]
    /\ pc' = [pc EXCEPT ![t] = IF vi[t].request = "file" THEN "verify_match"
                                ELSE "catalog_match"]
    /\ UNCHANGED <<arg, verifier, target, ctx, result, answers, asked, nextHandle>>

\* verify_internal, lines 221-225: what it returns after Context::new.
VerifyInternalReturn(t) ==
    /\ pc[t] = "vi_tail"
    /\ IF vi[t].status = ERROR_SUCCESS
       THEN /\ vi' = [vi EXCEPT ![t].ret = vi[t].made]
            /\ UNCHANGED <<lastError, context, log, open>>
       ELSE \* `let _ = Context::new(..)` drops the Context at once
            /\ IF vi[t].made.ok
               THEN /\ \E e \in {lastError[t]} \cup ErrorCodes :
                          lastError' = [lastError EXCEPT ![t] = e]
                    /\ log' = [log EXCEPT ![t] =
                                 @ \o close_data(context[t].data)
                                   \o <<Ev("GetLastError", "", NULL)>>]
                    /\ open' = open \ {context[t].data}
                    /\ context' = [context EXCEPT ![t] = NoContext]
               ELSE /\ log' = [log EXCEPT ![t] = Append(@, Ev("GetLastError", "", NULL))]
                    /\ UNCHANGED <<lastError, context, open>>
            /\ vi' = [vi EXCEPT ![t].ret = VErr(lastError'[t])]
    /\ pc' = [pc EXCEPT ![t] = IF vi[t].request = "file" THEN "verify_match"
                                ELSE "catalog_match"]
    /\ UNCHANGED <<arg, verifier, target, ctx, result, answers, asked, nextHandle>>

\* Verifier::verify, lines 84-93: the match on the direct call's result.
VerifyMatch(t) ==
    /\ pc[t] = "verify_match"
    /\ IF vi[t].ret.ok
       THEN /\ result' = [result EXCEPT ![t] = Ok]
            /\ pc' = [pc EXCEPT ![t] = "returned"]
       ELSE IF vi[t].ret.err = TRUST_E_NOSIGNATURE
            THEN /\ result' = result
                 /\ pc' = [pc EXCEPT ![t] = "createfile"]
            ELSE /\ result' = [result EXCEPT ![t] = OsError(vi[t].ret.err)]
                 /\ pc' = [pc EXCEPT ![t] = "returned"]
    /\ UNCHANGED <<arg, verifier, target, lastError, vi, ctx, context, answers, asked, log,
                   open, nextHandle>>

Range(s) == {s[i] : i \in 1..Len(s)}

\* The error codes a failed Win32 call leaves in the last-error slot.
Win32Failures == {ERROR_ACCESS_DENIED}

\* verify_catalog_signed, lines 99-114: CreateFileW and CleanupContext::new.
CreateFile(t) ==
    /\ pc[t] = "createfile"
    /\ \/ \E h_file \in {nextHandle} :
            /\ open' = open \cup {h_file}
            /\ nextHandle' = nextHandle + 1
            /\ log' = [log EXCEPT ![t] = Append(@, Ev("CreateFileW", "", h_file))]
            /\ ctx' = [ctx EXCEPT ![t] = [h_file |-> h_file, h_cat_admin |-> 0,
                                          h_cat_info |-> 0, live |-> TRUE]]
            /\ pc' = [pc EXCEPT ![t] = "acquire"]
            /\ UNCHANGED <<lastError, result>>
       \/ \E err \in Win32Failures :
            /\ lastError' = [lastError EXCEPT ![t] = err]
            /\ log' = [log EXCEPT ![t] =
                         @ \o <<Ev("CreateFileW", "", INVALID_HANDLE_VALUE),
                                Ev("GetLastError", "", NULL)>>]
            /\ result' = [result EXCEPT ![t] = OsError(err)]
            /\ pc' = [pc EXCEPT ![t] = "returned"]
            /\ UNCHANGED <<ctx, open, nextHandle>>
    /\ UNCHANGED <<arg, verifier, target, vi, context, answers, asked>>

\* verify_catalog_signed, lines 116-129: CryptCATAdminAcquireContext2.
AcquireContext(t) ==
    /\ pc[t] = "acquire"
    /\ \/ \E h_cat_admin \in {nextHandle} :
            /\ open' = open \cup {h_cat_admin}
            /\ nextHandle' = nextHandle + 1
            /\ log' = [log EXCEPT ![t] =
                         Append(@, Ev("CryptCATAdminAcquireContext2", "", h_cat_admin))]
            /\ ctx' = [ctx EXCEPT ![t].h_cat_admin = h_cat_admin]
            /\ pc' = [pc EXCEPT ![t] = "calchash"]
            /\ UNCHANGED <<lastError, result>>
       \/ \E err \in Win32Failures :
            /\ lastError' = [lastError EXCEPT ![t] = err]
            /\ log' = [log EXCEPT ![t] =
                         @ \o <<Ev("CryptCATAdminAcquireContext2", "", NULL),
                                Ev("GetLastError", "", NULL)>>]
            /\ result' = [result EXCEPT ![t] = OsError(err)]
            /\ pc' = [pc EXCEPT ![t] = "guarddrop"]
            /\ UNCHANGED <<ctx, open, nextHandle>>
    /\ UNCHANGED <<arg, verifier, target, vi, context, answers, asked>>

\* a hash step that goes on to the catalog lookup when the hash call failed
CalcHash_IgnoresFailure(t) ==
    /\ pc[t] = "calchash"
    /\ \/ /\ log' = [log EXCEPT ![t] =
                       Append(@, Ev("CryptCATAdminCalcHashFromFileHandle2", "ok",
                                    ctx[t].h_file))]
          /\ UNCHANGED lastError
       \/ \E err \in Win32Failures :
            /\ lastError' = [lastError EXCEPT ![t] = err]
            /\ log' = [log EXCEPT ![t] =
                         Append(@, Ev("CryptCATAdminCalcHashFromFileHandle2", "failed",
                                      ctx[t].h_file))]
    /\ pc' = [pc EXCEPT ![t] = "enum"]
    /\ UNCHANGED <<arg, verifier, target, vi, ctx, context, result, answers, asked, open,
                   nextHandle>>

\* verify_catalog_signed, lines 131-143: CryptCATAdminCalcHashFromFileHandle2.
CalcHash(t) ==
    /\ pc[t] = "calchash"
    /\ \/ /\ log' = [log EXCEPT ![t] =
                       Append(@, Ev("CryptCATAdminCalcHashFromFileHandle2", "ok",
                                    ctx[t].h_file))]
          /\ pc' = [pc EXCEPT ![t] = "enum"]
          /\ UNCHANGED <<lastError, result>>
       \/ \E err \in Win32Failures :
            /\ lastError' = [lastError EXCEPT ![t] = err]
            /\ log' = [log EXCEPT ![t] =
                         @ \o <<Ev("CryptCATAdminCalcHashFromFileHandle2", "failed",
                                   ctx[t].h_file),
                                Ev("GetLastError", "", NULL)>>]
            /\ result' = [result EXCEPT ![t] = OsError(err)]
            /\ pc' = [pc EXCEPT ![t] = "guarddrop"]
    /\ UNCHANGED <<arg, verifier, target, vi, ctx, context, answers, asked, open, nextHandle>>

\* verify_catalog_signed, lines 145-156: CryptCATAdminEnumCatalogFromHash
\* finds a catalog exactly when one lists the file's hash.
EnumCatalog(t) ==
    /\ pc[t] = "enum"
    /\ IF target[t].cataloged
       THEN \E h_cat_info \in {nextHandle} :
              /\ open' = open \cup {h_cat_info}
              /\ nextHandle' = nextHandle + 1
              /\ log' = [log EXCEPT ![t] =
                           Append(@, Ev("CryptCATAdminEnumCatalogFromHash", "", h_cat_info))]
              /\ ctx' = [ctx EXCEPT ![t].h_cat_info = h_cat_info]
              /\ pc' = [pc EXCEPT ![t] = "catinfo"]
              /\ result' = result
       ELSE /\ log' = [log EXCEPT ![t] =
                         Append(@, Ev("CryptCATAdminEnumCatalogFromHash", "", NULL))]
            /\ result' = [result EXCEPT ![t] = Unsigned]
            /\ pc' = [pc EXCEPT ![t] = "guarddrop"]
            /\ UNCHANGED <<ctx, open, nextHandle>>
    /\ UNCHANGED <<arg, verifier, target, lastError, vi, context, answers, asked>>

\* verify_catalog_signed, lines 158-180: CryptCATCatalogInfoFromContext, then
\* the call of verify_internal(None, Some(wci)).
CatalogInfo(t) ==
    /\ pc[t] = "catinfo"
    /\ \/ /\ log' = [log EXCEPT ![t] =
                       Append(@, Ev("CryptCATCatalogInfoFromContext", "ok",
                                    ctx[t].h_cat_info))]
          /\ vi' = [vi EXCEPT ![t] = [NoLocals EXCEPT
                       !.request = "catalog",
                       !.pcwszFilePath = NativeString(verifier[t].path, 1)]]
          /\ pc' = [pc EXCEPT ![t] = "wvt"]
          /\ UNCHANGED <<lastError, result>>
       \/ \E err \in Win32Failures :
            /\ lastError' = [lastError EXCEPT ![t] = err]
            /\ log' = [log EXCEPT ![t] =
                         @ \o <<Ev("CryptCATCatalogInfoFromContext", "failed",
                                   ctx[t].h_cat_info),
                                Ev("GetLastError", "", NULL)>>]
            /\ result' = [result EXCEPT ![t] = OsError(err)]
            /\ pc' = [pc EXCEPT ![t] = "guarddrop"]
            /\ vi' = vi
    /\ UNCHANGED <<arg, verifier, target, ctx, context, answers, asked, open, nextHandle>>

\* a match that treats the catalog call's "no signature" like the direct one's
CatalogMatch_MapsNoSignature(t) ==
    /\ pc[t] = "catalog_match"
    /\ result' = [result EXCEPT ![t] =
                    IF vi[t].ret.ok THEN Ok
                    ELSE IF vi[t].ret.err = TRUST_E_NOSIGNATURE THEN Unsigned
                    ELSE OsError(vi[t].ret.err)]
    /\ pc' = [pc EXCEPT ![t] = "guarddrop"]
    /\ UNCHANGED <<arg, verifier, target, lastError, vi, ctx, context, answers, asked, log,
                   open, nextHandle>>

\* verify_catalog_signed, lines 180-183: the match on the catalog call's result.
CatalogMatch(t) ==
    /\ pc[t] = "catalog_match"
    /\ result' = [result EXCEPT ![t] = IF vi[t].ret.ok THEN Ok
                                       ELSE OsError(vi[t].ret.err)]
    /\ pc' = [pc EXCEPT ![t] = "guarddrop"]
    /\ UNCHANGED <<arg, verifier, target, lastError, vi, ctx, context, answers, asked, log,
                   open, nextHandle>>

\* a guard that forgets the catalog-admin context
CleanupContextDrop_LeakAdmin(self) ==
    (IF self.h_file # 0 THEN <<Ev("CloseHandle", "", self.h_file)>> ELSE <<>>)
    \o (IF self.h_cat_info # 0
        THEN <<Ev("CryptCATAdminReleaseCatalogContext", "", self.h_cat_info)>> ELSE <<>>)

\* a guard that releases the catalog-info field without looking at it
CleanupContextDrop_NoNullCheck(self) ==
    (IF self.h_file # 0 THEN <<Ev("CloseHandle", "", self.h_file)>> ELSE <<>>)
    \o <<Ev("CryptCATAdminReleaseCatalogContext", "", self.h_cat_info)>>
    \o (IF self.h_cat_admin # 0
        THEN <<Ev("CryptCATAdminReleaseContext", "", self.h_cat_admin)>> ELSE <<>>)

\* impl Drop for CleanupContext: the release calls, in the order issued.
CleanupContextDrop(self) ==
    (IF self.h_file # 0 THEN <<Ev("CloseHandle", "", self.h_file)>> ELSE <<>>)
    \o (IF self.h_cat_info # 0
        THEN <<Ev("CryptCATAdminReleaseCatalogContext", "", self.h_cat_info)>> ELSE <<>>)
    \o (IF self.h_cat_admin # 0
        THEN <<Ev("CryptCATAdminReleaseContext", "", self.h_cat_admin)>> ELSE <<>>)

\* a guard that also closes the trust state data of the catalog call
GuardDrop_ClosesState(t) ==
    /\ pc[t] = "guarddrop"
    /\ LET calls == CleanupContextDrop(ctx[t])
                     \o (IF context[t].live THEN close_data(context[t].data) ELSE <<>>)
       IN /\ log' = [log EXCEPT ![t] = @ \o calls]
          /\ open' = open \ {c.h : c \in Range(calls)}
    /\ ctx' = [ctx EXCEPT ![t] = NoGuard]
    /\ pc' = [pc EXCEPT ![t] = "returned"]
    /\ UNCHANGED <<arg, verifier, target, lastError, vi, context, result, answers, asked, nextHandle>>

\* verify_catalog_signed returns: `ctx` goes out of scope.
GuardDrop(t) ==
    /\ pc[t] = "guarddrop"
    /\ LET calls == CleanupContextDrop(ctx[t]) IN
         /\ log' = [log EXCEPT ![t] = @ \o calls]
         /\ open' = open \ {c.h : c \in Range(calls)}
    /\ ctx' = [ctx EXCEPT ![t] = NoGuard]
    /\ pc' = [pc EXCEPT ![t] = "returned"]
    /\ UNCHANGED <<arg, verifier, target, lastError, vi, context, result, answers, asked, nextHandle>>

\* ----------------------------------------------------------- Context (2/2)
\* Reading through leaf_cert_ptr: the certificate, or anything at all once
\* the state data that owns it has been closed.
Deref(ptr) == IF ptr.owner \in open THEN {ptr.cert} ELSE Certs

\* thumbprints taken over the serial number instead of the encoded certificate
QueryValue_OverSerial(q, cert) ==
    CASE q = "subject_name" -> subject_name(cert)
      [] q = "issuer_name" -> issuer_name(cert)
      [] q = "serial" -> serial(cert)
      [] q = "sha1_thumbprint" -> FoldHex(Sha1Digest(cert.SerialNumber), 1, <<>>)
      [] OTHER -> FoldHex(Sha256Digest(cert.SerialNumber), 1, <<>>)

\* What a query returns for the certificate it reads.
QueryValue(q, cert) ==
    CASE q = "subject_name" -> subject_name(cert)
      [] q = "issuer_name" -> issuer_name(cert)
      [] q = "serial" -> serial(cert)
      [] q = "sha1_thumbprint" -> sha1_thumbprint(cert)
      [] OTHER -> sha256_thumbprint(cert)

\* The native calls a query makes: the name queries ask the system for each
\* attribute, serial and the thumbprints read the certificate's memory only.
QueryCalls(q, cert) ==
    CASE q = "subject_name" -> name_calls(cert, FALSE)
      [] q = "issuer_name" -> name_calls(cert, TRUE)
      [] OTHER -> <<>>

\* A caller holding the returned Context calls one of its query methods.
Query(t) ==
    /\ pc[t] = "returned"
    /\ result[t] = Ok
    /\ Len(asked[t]) < MaxQueries
    /\ \E q \in Queries : \E cert \in Deref(context[t].leaf_cert_ptr) :
          /\ answers' = [answers EXCEPT ![t][q] = QueryValue(q, cert)]
          /\ asked' = [asked EXCEPT ![t] = Append(@, q)]
          /\ log' = [log EXCEPT ![t] = @ \o QueryCalls(q, cert)]
    /\ UNCHANGED <<arg, verifier, target, pc, lastError, vi, ctx, context, result, open, nextHandle>>

\* state data kept in one place for all threads: dropping a Context closes
\* whatever state handle any live Context holds
ContextDrop_SharedState(t) ==
    /\ pc[t] = "returned"
    /\ result[t] = Ok
    /\ LET live == {u \in Threads \ {t} : context[u].live}
           calls == close_data(context[t].data)
                    \o (IF live = {} THEN <<>>
                        ELSE close_data(context[CHOOSE u \in live : TRUE].data))
       IN /\ log' = [log EXCEPT ![t] = @ \o calls]
          /\ open' = open \ {c.h : c \in Range(calls)}
    /\ context' = [context EXCEPT ![t] = NoContext]
    /\ pc' = [pc EXCEPT ![t] = "done"]
    /\ UNCHANGED <<arg, verifier, target, lastError, vi, ctx, result, answers, asked, nextHandle>>

\* impl Drop for Context: the caller lets go of the returned Context.
ContextDrop(t) ==
    /\ pc[t] = "returned"
    /\ result[t] = Ok
    /\ log' = [log EXCEPT ![t] = @ \o close_data(context[t].data)]
    /\ open' = open \ {context[t].data}
    /\ context' = [context EXCEPT ![t] = NoContext]
    /\ pc' = [pc EXCEPT ![t] = "done"]
    /\ UNCHANGED <<arg, verifier, target, lastError, vi, ctx, result, answers, asked, nextHandle>>

Next ==
    \E t \in Threads :
        \/ VerifyStart(t)
        \/ WinVerifyTrustVerify(t)
        \/ ContextNew(t)
        \/ VerifyInternalReturn(t)
        \/ VerifyMatch(t)
        \/ CreateFile(t)
        \/ AcquireContext(t)
        \/ CalcHash(t)
        \/ EnumCatalog(t)
        \/ CatalogInfo(t)
        \/ CatalogMatch(t)
        \/ GuardDrop(t)
        \/ Query(t)
        \/ ContextDrop(t)

Spec == Init /\ [][Next]_vars

\* ------------------------------------------------- constructing a Verifier
ERROR_INVALID_PARAMETER == ERROR_SUCCESS + 87
\* Codes OpenProcess and QueryFullProcessImageNameW leave on failure.
PidFailures == {ERROR_ACCESS_DENIED, ERROR_INVALID_PARAMETER}

\* A native call that failed with the code it left in the last-error slot.
FailedEv(call, h, code) == [call |-> call, how |-> "failed", h |-> h, status |-> code]

\* CodeSignVerifier::for_file -> Verifier::for_file: never fails.
ForFile(t) ==
    /\ pc[t] = "new"
    /\ arg[t].kind = "file"
    /\ verifier' = [verifier EXCEPT ![t] = [NoVerifier EXCEPT
                       !.made = TRUE, !.path = for_file(arg[t].path)]]
    /\ pc' = [pc EXCEPT ![t] = "idle"]
    /\ UNCHANGED <<arg, target, lastError, vi, ctx, context, result, answers, asked,
                   log, open, nextHandle>>

\* for_pid -> get_process_path, lines 233-236: OpenProcess.
OpenProcess(t) ==
    /\ pc[t] = "new"
    /\ arg[t].kind = "pid"
    /\ IF arg[t].opens
       THEN \E proc_handle \in {nextHandle} :
              /\ open' = open \cup {proc_handle}
              /\ nextHandle' = nextHandle + 1
              /\ log' = [log EXCEPT ![t] = Append(@, Ev("OpenProcess", "", proc_handle))]
              /\ pc' = [pc EXCEPT ![t] = "query"]
              /\ UNCHANGED <<verifier, lastError>>
       ELSE \E err \in PidFailures :
              /\ lastError' = [lastError EXCEPT ![t] = err]
              /\ log' = [log EXCEPT ![t] =
                           @ \o <<FailedEv("OpenProcess", NULL, err),
                                  Ev("GetLastError", "", NULL)>>]
              /\ verifier' = [verifier EXCEPT ![t].err = OsError(err)]
              /\ pc' = [pc EXCEPT ![t] = "nopid"]
              /\ UNCHANGED <<open, nextHandle>>
    /\ UNCHANGED <<arg, target, vi, ctx, context, result, answers, asked>>

\* The process handle get_process_path holds.
ProcHandle(t) ==
    LET i == CHOOSE j \in 1..Len(log[t]) : log[t][j].call = "OpenProcess"
    IN  log[t][i].h

QueryFullProcessImageName_IgnoresFailure(t) ==
    /\ pc[t] = "query"
    /\ log' = [log EXCEPT ![t] =
                 Append(@, Ev("QueryFullProcessImageNameW", "", ProcHandle(t)))]
    /\ verifier' = [verifier EXCEPT ![t] = [NoVerifier EXCEPT
                       !.made = TRUE,
                       !.path = for_file(from_utf16_lossy(arg[t].path, 1))]]
    /\ pc' = [pc EXCEPT ![t] = "idle"]
    /\ UNCHANGED <<arg, target, lastError, vi, ctx, context, result, answers, asked,
                   open, nextHandle>>

\* get_process_path, lines 238-243, and for_pid, line 69: the image name is
\* queried, converted lossily and handed to for_file.  The process handle is
\* left as it is on both paths.
QueryFullProcessImageName(t) ==
    /\ pc[t] = "query"
    /\ IF arg[t].queries
       THEN /\ log' = [log EXCEPT ![t] =
                         Append(@, Ev("QueryFullProcessImageNameW", "", ProcHandle(t)))]
            /\ verifier' = [verifier EXCEPT ![t] = [NoVerifier EXCEPT
                               !.made = TRUE,
                               !.path = for_file(from_utf16_lossy(arg[t].path, 1))]]
            /\ pc' = [pc EXCEPT ![t] = "idle"]
            /\ UNCHANGED lastError
       ELSE \E err \in PidFailures :
              /\ lastError' = [lastError EXCEPT ![t] = err]
              /\ log' = [log EXCEPT ![t] =
                           @ \o <<FailedEv("QueryFullProcessImageNameW", ProcHandle(t), err),
                                  Ev("GetLastError", "", NULL)>>]
              /\ verifier' = [verifier EXCEPT ![t].err = OsError(err)]
              /\ pc' = [pc EXCEPT ![t] = "nopid"]
    /\ UNCHANGED <<arg, target, vi, ctx, context, result, answers, asked, open, nextHandle>>

\* One thread constructs a Verifier, from a path or from a process id, and
\* verifies a file that is signed through a catalog.
InitPid ==
    /\ arg \in [Threads -> Args]
    /\ arg["t2"] = FileArg(<<97>>)
    /\ verifier = [t \in Threads |-> NoVerifier]
    /\ target = [t \in Threads |->
                   IF t = "t1" THEN [DefaultTarget EXCEPT !.embedded = "nosig",
                                                          !.cataloged = TRUE]
                   ELSE DefaultTarget]
    /\ pc = [t \in Threads |-> IF t = "t1" THEN "new" ELSE "off"]
    /\ lastError = [t \in Threads |-> ERROR_SUCCESS]
    /\ vi = [t \in Threads |-> NoLocals]
    /\ ctx = [t \in Threads |-> NoGuard]
    /\ context = [t \in Threads |-> NoContext]
    /\ result = [t \in Threads |-> NoResult]
    /\ answers = [t \in Threads |-> [q \in Queries |-> NotAsked]]
    /\ asked = [t \in Threads |-> <<>>]
    /\ log = [t \in Threads |-> <<>>]
    /\ open = {}
    /\ nextHandle = 1

NextPid ==
    \E t \in Threads :
        \/ ForFile(t)
        \/ OpenProcess(t)
        \/ QueryFullProcessImageName(t)
        \/ VerifyStart(t)
        \/ WinVerifyTrustVerify(t)
        \/ ContextNew(t)
        \/ VerifyInternalReturn(t)
        \/ VerifyMatch(t)
        \/ CreateFile(t)
        \/ AcquireContext(t)
        \/ CalcHash(t)
        \/ EnumCatalog(t)
        \/ CatalogInfo(t)
        \/ CatalogMatch(t)
        \/ GuardDrop(t)
        \/ Query(t)
        \/ ContextDrop(t)

SpecPid == InitPid /\ [][NextPid]_vars

\* ------------------------------------------------------------- two threads
\* Two threads each call verify() on a Verifier of their own; the steps of
\* the two calls interleave in any order.
\* The first verifies a file signed through a catalog (every step of the
\* fallback), the second a file with an embedded signature.
InitConc ==
    /\ InitWith(Threads)
    /\ \A t \in Threads : target[t].signer = DefaultCert
    /\ target["t1"].embedded = "nosig" /\ target["t1"].cataloged
    /\ target["t2"].embedded = "trusted" /\ ~target["t2"].cataloged

NextConc ==
    \E t \in Threads :
        \/ VerifyStart(t)
        \/ WinVerifyTrustVerify(t)
        \/ ContextNew(t)
        \/ VerifyInternalReturn(t)
        \/ VerifyMatch(t)
        \/ CreateFile(t)
        \/ AcquireContext(t)
        \/ CalcHash(t)
        \/ EnumCatalog(t)
        \/ CatalogInfo(t)
        \/ CatalogMatch(t)
        \/ GuardDrop(t)
        \/ ContextDrop(t)

SpecConc == InitConc /\ [][NextConc]_vars

\* ================================================================ properties
NoHandle == {NULL, INVALID_HANDLE_VALUE}
IsVerify(e) == e.call = "WinVerifyTrust" /\ e.how \in {"file", "catalog"}
IsClose(e) == e.call = "WinVerifyTrust" /\ e.how = "close"
AcquireCalls == {"CreateFileW", "CryptCATAdminAcquireContext2",
                 "CryptCATAdminEnumCatalogFromHash"}
ReleaseCalls == {"CloseHandle", "CryptCATAdminReleaseContext",
                 "CryptCATAdminReleaseCatalogContext"}
ReleaseOf(call) ==
    CASE call = "CreateFileW" -> "CloseHandle"
      [] call = "CryptCATAdminAcquireContext2" -> "CryptCATAdminReleaseContext"
      [] OTHER -> "CryptCATAdminReleaseCatalogContext"

\* The handles thread t was given by the system so far.
Acquired(t) ==
    {log[t][i].h : i \in {j \in 1..Len(log[t]) :
                             /\ log[t][j].call \in AcquireCalls \/ IsVerify(log[t][j])
                             /\ log[t][j].h \notin NoHandle}}

\* The number of close directives thread t issued for state handle h.
CloseCount(t, h) == Cardinality({i \in 1..Len(log[t]) : IsClose(log[t][i]) /\ log[t][i].h = h})

\* The place in log[t] of the successful call `call`, 0 if there is none.
Pos(t, call) ==
    LET at == {i \in 1..Len(log[t]) : log[t][i].call = call /\ log[t][i].h \notin NoHandle}
    IN IF at = {} THEN 0 ELSE CHOOSE i \in at : \A j \in at : i <= j

Before(t, a, b) == (Pos(t, a) # 0 /\ Pos(t, b) # 0) => Pos(t, a) < Pos(t, b)

\* The trust calls (WTD_STATEACTION_VERIFY) thread t made, in order.
VerifyCalls(t) == SelectSeq(log[t], IsVerify)

\* The status the direct (file) trust call of thread t returned: the first
\* trust call of the thread, after the calls of the constructor if any.
DirectStatus(t) == VerifyCalls(t)[1].status

\* verify() of thread t was called and is past the match on the direct
\* call's result.
DirectDone(t) ==
    /\ pc[t] \notin {"off", "new", "query", "nopid", "idle"}
    /\ ~(vi[t].request = "file" /\ pc[t] \in {"wvt", "ctxnew", "vi_tail", "verify_match"})

FallbackEntered(t) ==
    pc[t] = "createfile" \/ \E e \in Range(log[t]) : e.call = "CreateFileW"

\* C1: after verify() has returned, on every path, every handle the call
\* acquired is released, except the state handle of a returned Context.
C1_ResourceSafety ==
    \A t \in Threads :
        pc[t] \in {"returned", "done"} =>
            Acquired(t) \cap open =
                (IF pc[t] = "returned" /\ result[t] = Ok THEN {context[t].data} ELSE {})

C1_Witness ==
    /\ pc["t1"] = "returned"
    /\ result["t1"] = Ok
    /\ Cardinality(Acquired("t1")) = 5
    /\ open = {context["t1"].data}

\* C2: a file with no embedded signature that no catalog covers makes
\* verify() return Unsigned, whatever the fallback's native calls return.
C2_UnsignedNeverNative ==
    \A t \in Threads :
        (pc[t] = "returned" /\ target[t].embedded = "nosig" /\ ~target[t].cataloged)
            => result[t] = Unsigned

\* C3: the fallback is entered exactly when the direct trust call reports "no
\* signature present"; any other failure status is returned at once as
\* OsError(status), with no file open, no catalog-admin acquisition and no
\* second trust call.
C3_FallbackIffNoSignature ==
    \A t \in Threads :
        DirectDone(t) =>
            /\ FallbackEntered(t) <=> DirectStatus(t) = TRUST_E_NOSIGNATURE
            /\ DirectStatus(t) \notin {ERROR_SUCCESS, TRUST_E_NOSIGNATURE} =>
                  /\ result[t] = OsError(DirectStatus(t))
                  /\ \A i \in 2..Len(log[t]) :
                        /\ log[t][i].call \notin AcquireCalls
                        /\ ~IsVerify(log[t][i])

\* C4: the state handle of a returned Context stays open, with no close
\* directive issued for it, as long as the Context lives, and gets exactly one
\* close directive when the Context is dropped.
C4_StateHandleLifetime ==
    \A t \in Threads :
        result[t] = Ok =>
            LET h == vi[t].hWVTStateData IN
            /\ pc[t] \in {"guarddrop", "returned"} =>
                  /\ context[t].live /\ context[t].data = h
                  /\ h \in open
                  /\ CloseCount(t, h) = 0
            /\ pc[t] = "done" =>
                  /\ ~context[t].live
                  /\ h \notin open
                  /\ CloseCount(t, h) = 1

C4_Witness ==
    /\ pc["t1"] = "done"
    /\ result["t1"] = Ok
    /\ Len(asked["t1"]) = MaxQueries
    /\ CloseCount("t1", vi["t1"].hWVTStateData) = 1

\* C5: a trust call that reports success but yields no signer certificate
\* makes verify() fail with Error::LeafCertNotFound.
C5_LeafCertNotFound ==
    \A t \in Threads :
        (pc[t] = "returned" /\ vi[t].status = ERROR_SUCCESS /\ ~vi[t].made.ok)
            => result[t] = LeafCertNotFound

\* C6: the code verify_internal returns for a failed trust call, which
\* verify() tests and wraps, is the raw status that trust call reported.
C6_RawStatusPreserved ==
    \A t \in Threads :
        (pc[t] \in {"verify_match", "catalog_match"} /\ vi[t].status # ERROR_SUCCESS)
            => vi[t].ret = VErr(vi[t].status)

\* C7: handles are acquired in the order file, catalog-admin, catalog-info and
\* released in the reverse order: catalog-info, catalog-admin, file.
C7_ReleaseIsLifo ==
    \A t \in Threads :
        /\ Before(t, "CreateFileW", "CryptCATAdminAcquireContext2")
        /\ Before(t, "CryptCATAdminAcquireContext2", "CryptCATAdminEnumCatalogFromHash")
        /\ Before(t, "CryptCATAdminReleaseCatalogContext", "CryptCATAdminReleaseContext")
        /\ Before(t, "CryptCATAdminReleaseContext", "CloseHandle")

\* C8: the guard's teardown issues a release call for a handle exactly when
\* that handle was acquired; a null or invalid handle is never released.
C8_ReleaseIffAcquired ==
    \A t \in Threads :
        /\ \A i \in 1..Len(log[t]) :
              log[t][i].call \in ReleaseCalls =>
                 /\ log[t][i].h \notin NoHandle
                 /\ \E j \in 1..(i - 1) :
                       /\ log[t][j].call \in AcquireCalls
                       /\ ReleaseOf(log[t][j].call) = log[t][i].call
                       /\ log[t][j].h = log[t][i].h
        /\ pc[t] \in {"returned", "done"} =>
              \A j \in 1..Len(log[t]) :
                 (log[t][j].call \in AcquireCalls /\ log[t][j].h \notin NoHandle) =>
                    \E i \in (j + 1)..Len(log[t]) :
                       /\ log[t][i].call = ReleaseOf(log[t][j].call)
                       /\ log[t][i].h = log[t][j].h

\* the fallback returned at the hash computation: two handles to release
C8_Witness ==
    /\ pc["t1"] = "returned"
    /\ Pos("t1", "CloseHandle") # 0
    /\ Pos("t1", "CryptCATAdminReleaseContext") # 0
    /\ Pos("t1", "CryptCATAdminReleaseCatalogContext") = 0
    /\ \E e \in Range(log["t1"]) :
          e.call = "CryptCATAdminCalcHashFromFileHandle2" /\ e.how = "failed"

\* The certificate a live Context of thread t points at.
LeafCert(t) == context[t].leaf_cert_ptr.cert

\* C9: serial() is the serial bytes in reversed order, two lower-case hex
\* digits per byte: [0x01,0x02,0x03] gives "030201".
C9_SerialReversedHex ==
    \A t \in Threads :
        (pc[t] = "returned" /\ result[t] = Ok /\ "serial" \in Range(asked[t])) =>
            LET b == LeafCert(t).SerialNumber
                n == Len(b)
                r == answers[t]["serial"]
            IN /\ Len(r) = 2 * n
               /\ \A i \in 1..n :
                     /\ r[2 * i - 1] = HexDigits[(b[n + 1 - i] \div 16) + 1]
                     /\ r[2 * i] = HexDigits[(b[n + 1 - i] % 16) + 1]
               /\ b = <<1, 2, 3>> => r = <<"0", "3", "0", "2", "0", "1">>
               /\ b = <<171, 1>> => r = <<"0", "1", "a", "b">>

C9_Witness ==
    /\ pc["t1"] = "returned"
    /\ result["t1"] = Ok
    /\ LeafCert("t1").SerialNumber = <<1, 2, 3>>
    /\ answers["t1"]["serial"] = <<"0", "3", "0", "2", "0", "1">>

\* The lower-case hex digest of a byte string.
HexOfSha1(bytes) == FoldHex(Sha1Digest(bytes), 1, <<>>)
HexOfSha256(bytes) == FoldHex(Sha256Digest(bytes), 1, <<>>)

\* C10: the queries are read-only: a query leaves the Context's state handle
\* and leaf pointer (and the system's handles) as they were, a repeated query
\* returns what it returned before, and a thumbprint is the hex digest of the
\* certificate's encoded bytes and of nothing else: 40 hex digits of SHA-1,
\* 64 of SHA-256, for the encoding 30 03 01 the digests fac5.. and 5221...
C10_QueriesReadOnly ==
    /\ [](\A t \in Threads :
            (pc[t] = "returned" /\ result[t] = Ok) =>
               /\ "sha1_thumbprint" \in Range(asked[t]) =>
                     LET r == answers[t]["sha1_thumbprint"]
                     IN /\ r = HexOfSha1(LeafCert(t).CertEncoded)
                        /\ Len(r) = 40
                        /\ LeafCert(t).CertEncoded = <<48, 3, 1>> =>
                              r = "fac50443e6b858d42b3187a74d636ce6fe19871a"
               /\ "sha256_thumbprint" \in Range(asked[t]) =>
                     LET r == answers[t]["sha256_thumbprint"]
                     IN /\ r = HexOfSha256(LeafCert(t).CertEncoded)
                        /\ Len(r) = 64
                        /\ LeafCert(t).CertEncoded = <<48, 3, 1>> =>
                              r = "52217ab4171cf519c377a4201adc234bebe6bd00332b6b3c1f96fcaf0732f47e")
    /\ [][\A t \in Threads :
            asked'[t] # asked[t] =>
               /\ context'[t] = context[t]
               /\ open' = open
               /\ \A q \in Range(asked[t]) : answers'[t][q] = answers[t][q]]_vars

C10_Witness ==
    /\ pc["t1"] = "returned"
    /\ asked["t1"] = <<"sha1_thumbprint", "sha1_thumbprint">>
    /\ LeafCert("t1").CertEncoded = <<48, 3, 1>>
    /\ answers["t1"]["sha1_thumbprint"] = sha1_thumbprint(LeafCert("t1"))
    /\ Len(answers["t1"]["sha1_thumbprint"]) = 40

\* ------------------------------------------------------------ constructors
TrustCalls(t) == {i \in 1..Len(log[t]) : IsVerify(log[t][i])}
\* The constructor of thread t has returned.
Constructed(t) == pc[t] \notin {"new", "query", "off"}
FailedPidCalls(t) ==
    {i \in 1..Len(log[t]) :
        /\ log[t][i].call \in {"OpenProcess", "QueryFullProcessImageNameW"}
        /\ log[t][i].how = "failed"}

\* C11: for_pid for a process that cannot be opened, or whose image name
\* cannot be queried, returns Err(OsError(code)) where code is the code the
\* failing call left; no Verifier is made and no trust call follows.
C11_ForPidFailure ==
    \A t \in Threads :
        (Constructed(t) /\ arg[t].kind = "pid" /\ ~(arg[t].opens /\ arg[t].queries)) =>
            /\ pc[t] = "nopid"
            /\ ~verifier[t].made
            /\ \E i \in FailedPidCalls(t) :
                  /\ log[t][i].status \in PidFailures
                  /\ verifier[t].err = OsError(log[t][i].status)
            /\ TrustCalls(t) = {}

C11_Witness ==
    \E t \in Threads :
        /\ pc[t] = "nopid"
        /\ arg[t].opens /\ ~arg[t].queries
        /\ verifier[t].err = OsError(ERROR_INVALID_PARAMETER)

\* The path has a NUL before its end.
InteriorNul(path) == \E i \in 1..Len(path) : path[i] = NUL
\* The units are not well-formed UTF-16.
Malformed(units) == from_utf16_lossy(units, 1) # units

\* C12: a path with an interior NUL, or a malformed image path resolved for a
\* pid, is refused with InvalidPath and no trust call is made on it.
C12_InvalidPathRejected ==
    \A t \in Threads :
        (/\ Constructed(t)
         /\ \/ arg[t].kind = "file" /\ InteriorNul(arg[t].path)
            \/ arg[t].kind = "pid" /\ arg[t].opens /\ arg[t].queries
                                   /\ Malformed(arg[t].path)) =>
            /\ verifier[t].err = InvalidPath
            /\ TrustCalls(t) = {}

\* ------------------------------------------------------------- two threads
\* The handles thread t released (release calls and close directives).
Released(t) ==
    {log[t][i].h : i \in {j \in 1..Len(log[t]) :
                             log[t][j].call \in ReleaseCalls \/ IsClose(log[t][j])}}

\* C13: two verify() calls on separate threads, interleaved in any order: each
\* releases only handles it acquired itself, no handle is released by both,
\* a returned call has released what it acquired (but the returned Context's
\* state handle), and a step of one thread changes nothing the other holds.
C13_ThreadsIndependent ==
    /\ [](\A t \in Threads :
            /\ Released(t) \ {NULL} \subseteq Acquired(t)
            /\ \A u \in Threads \ {t} :
                  /\ Acquired(t) \cap Acquired(u) = {}
                  /\ Released(t) \cap Released(u) \subseteq {NULL}
            /\ pc[t] \in {"returned", "done"} =>
                  Acquired(t) \cap open =
                     (IF pc[t] = "returned" /\ result[t] = Ok
                      THEN {context[t].data} ELSE {}))
    /\ [][\A t \in Threads :
            pc'[t] # pc[t] =>
               /\ open \ open' \subseteq Acquired(t)
               /\ open' \ open \subseteq Acquired(t)'
               /\ \A u \in Threads \ {t} :
                     /\ lastError'[u] = lastError[u]
                     /\ vi'[u] = vi[u]
                     /\ ctx'[u] = ctx[u]
                     /\ context'[u] = context[u]
                     /\ result'[u] = result[u]
                     /\ log'[u] = log[u]]_vars

\* both calls have returned, and the second thread acquired a handle between
\* two acquisitions of the first
C13_Witness ==
    /\ pc["t1"] = "returned" /\ result["t1"] = Ok
    /\ pc["t2"] = "returned" /\ result["t2"] = Ok
    /\ \E a \in Acquired("t1"), b \in Acquired("t2"), c \in Acquired("t1") :
          a < b /\ b < c

\* ------------------------------------------------------- handles and calls
\* The number of release calls and close directives thread t issued for h.
ReleaseCount(t, h) ==
    Cardinality({i \in 1..Len(log[t]) :
                    /\ log[t][i].call \in ReleaseCalls \/ IsClose(log[t][i])
                    /\ log[t][i].h = h})

\* C14: no handle is released twice: each file, catalog-admin and catalog-info
\* handle gets at most one release call and each state handle at most one
\* close directive, during verify() and the life of the returned Context, also
\* where Context::new fails after a successful trust call and where the trust
\* call fails.
C14_NoDoubleRelease ==
    \A t \in Threads :
        \A h \in Acquired(t) :
            /\ ReleaseCount(t, h) <= 1
            /\ h \notin open => ReleaseCount(t, h) = 1

\* the direct trust call succeeded, Context::new found no signer and closed
\* the state data; verify() has returned
C14_Witness ==
    /\ pc["t1"] = "returned"
    /\ vi["t1"].status = ERROR_SUCCESS
    /\ ~vi["t1"].made.ok
    /\ vi["t1"].hWVTStateData \in Acquired("t1")
    /\ ReleaseCount("t1", vi["t1"].hWVTStateData) = 1

LastVerifyCall(t) == VerifyCalls(t)[Len(VerifyCalls(t))]

\* C15: verify() returns Ok(Context) only if a trust call reported success
\* and the leaf certificate was extracted, that call being the direct one, or
\* the catalog one made after the direct call reported "no signature"; the
\* Context holds the state handle that successful call produced.
C15_OkOnlyAfterSuccess ==
    \A t \in Threads :
        (result[t] = Ok /\ pc[t] \in {"guarddrop", "returned"}) =>
            /\ LastVerifyCall(t).status = ERROR_SUCCESS
            /\ vi[t].made.ok
            /\ context[t].live
            /\ context[t].data = LastVerifyCall(t).h
            /\ context[t].data # NULL
            /\ LastVerifyCall(t).how = "catalog" =>
                  VerifyCalls(t)[1].status = TRUST_E_NOSIGNATURE

\* C16 as stated: a Context exists only for the state handle of a trust call
\* that reported success, never for that of a failed call, not even for a
\* moment.
C16_NoContextForFailure ==
    \A t \in Threads :
        context[t].live => vi[t].status = ERROR_SUCCESS

\* C16, amended: a Context made for the state handle of a failed trust call
\* exists only inside verify_internal, between Context::new and the return,
\* where its drop closes the state data; once verify_internal has returned
\* a live Context belongs to a successful trust call, and the state handle of
\* the failed call has had its close directive.
C16_ContextForFailureIsTransient ==
    \A t \in Threads :
        /\ (context[t].live /\ vi[t].status # ERROR_SUCCESS) => pc[t] = "vi_tail"
        /\ (vi[t].status # ERROR_SUCCESS /\ pc[t] \in {"verify_match", "catalog_match"}) =>
              /\ ~context[t].live
              /\ vi[t].hWVTStateData \notin open
              /\ vi[t].hWVTStateData # NULL => CloseCount(t, vi[t].hWVTStateData) = 1
        /\ result[t] = Ok => vi[t].status = ERROR_SUCCESS

\* a failed trust call left a state handle and Context::new found the leaf
\* certificate in it: the Context is alive inside verify_internal
C16_Witness ==
    /\ pc["t1"] = "vi_tail"
    /\ vi["t1"].status = CERT_E_EXPIRED
    /\ context["t1"].live
    /\ context["t1"].data = vi["t1"].hWVTStateData
    /\ context["t1"].data \in open

\* The catalog trust call of thread t has been made and reported a failure.
CatalogCallFailed(t) ==
    /\ Len(VerifyCalls(t)) = 2
    /\ VerifyCalls(t)[2].how = "catalog"
    /\ VerifyCalls(t)[2].status # ERROR_SUCCESS

\* C17: in the fallback a failure of the catalog trust call, a second "no
\* signature" included, makes verify() return OsError(code): the result is
\* never Unsigned, and neither a further trust call nor a further acquisition
\* follows the failed call.
C17_CatalogFailureIsHard ==
    \A t \in Threads :
        /\ Len(VerifyCalls(t)) <= 2
        /\ CatalogCallFailed(t) =>
              /\ pc[t] \in {"guarddrop", "returned"} =>
                    /\ result[t].error = "OsError"
                    /\ result[t] = OsError(vi[t].ret.err)
              /\ pc[t] \notin {"wvt", "createfile", "acquire", "calchash", "enum", "catinfo", "done"}
              /\ \A i \in 1..Len(log[t]) :
                    log[t][i].call \in AcquireCalls =>
                       \E j \in (i + 1)..Len(log[t]) : IsVerify(log[t][j])

\* the catalog call reported "no signature" and verify() returned
C17_Witness ==
    /\ pc["t1"] = "returned"
    /\ CatalogCallFailed("t1")
    /\ VerifyCalls("t1")[2].status = TRUST_E_NOSIGNATURE
    /\ vi["t1"].ret.err = TRUST_E_NOSIGNATURE
    /\ result["t1"] = OsError(TRUST_E_NOSIGNATURE)

\* C18: verify() returns Unsigned only if the direct trust call reported "no
\* signature" and the catalog lookup found no catalog for the file.
C18_UnsignedOnlyIfNoSignature ==
    \A t \in Threads :
        result[t] = Unsigned =>
            /\ VerifyCalls(t)[1].how = "file"
            /\ VerifyCalls(t)[1].status = TRUST_E_NOSIGNATURE
            /\ \E e \in Range(log[t]) :
                  e.call = "CryptCATAdminEnumCatalogFromHash" /\ e.h = NULL

\* The places in log[t] of a failed file open, catalog-admin acquisition,
\* hash computation or catalog-info retrieval.
FailedFallbackSteps(t) ==
    {i \in 1..Len(log[t]) :
        \/ log[t][i].call = "CreateFileW" /\ log[t][i].h = INVALID_HANDLE_VALUE
        \/ log[t][i].call = "CryptCATAdminAcquireContext2" /\ log[t][i].h = NULL
        \/ log[t][i].call = "CryptCATAdminCalcHashFromFileHandle2" /\ log[t][i].how = "failed"
        \/ log[t][i].call = "CryptCATCatalogInfoFromContext" /\ log[t][i].how = "failed"}

\* C19: in the fallback a failed file open, catalog-admin acquisition, hash
\* computation or catalog-info retrieval aborts at once: verify() returns
\* OsError(code) with the code the failed call left, the next thing after
\* the failed call is GetLastError, and only releases follow: no later
\* acquisition and no catalog trust call.
C19_FallbackStepFailureAborts ==
    \A t \in Threads :
        \A i \in FailedFallbackSteps(t) :
            /\ pc[t] \in {"guarddrop", "returned"}
            /\ result[t] = OsError(lastError[t])
            /\ lastError[t] \in Win32Failures
            /\ log[t][i + 1].call = "GetLastError"
            /\ \A j \in (i + 2)..Len(log[t]) : log[t][j].call \in ReleaseCalls
            /\ Len(VerifyCalls(t)) = 1

\* the catalog-info retrieval failed with three handles held; verify() has
\* returned and released them
C19_Witness ==
    /\ pc["t1"] = "returned"
    /\ \E i \in FailedFallbackSteps("t1") :
          log["t1"][i].call = "CryptCATCatalogInfoFromContext"
    /\ result["t1"] = OsError(ERROR_ACCESS_DENIED)
    /\ Cardinality(Released("t1") \cap Acquired("t1")) = 3

\* C20: a verify() call makes at most two trust calls: the first is always
\* the file-based one; a second one is the catalog-based one and is made only
\* after the first reported "no signature" and a catalog was found for the
\* file; the same request is never issued twice.
C20_TrustCallSequence ==
    \A t \in Threads :
        LET calls == VerifyCalls(t) IN
        /\ Len(calls) <= 2
        /\ Len(calls) >= 1 => calls[1].how = "file"
        /\ Len(calls) = 2 =>
              /\ calls[2].how = "catalog"
              /\ calls[1].status = TRUST_E_NOSIGNATURE
              /\ Pos(t, "CryptCATAdminEnumCatalogFromHash") # 0

\* ------------------------------------------------------------------ for_pid
\* The process handles thread t was given by OpenProcess.
ProcHandles(t) ==
    {log[t][i].h : i \in {j \in 1..Len(log[t]) :
                             /\ log[t][j].call = "OpenProcess"
                             /\ log[t][j].h \notin NoHandle}}

\* C21: for_pid releases every handle it acquired before it returns: once it
\* has returned, on the success path and on the query-failure path, the
\* process handle it opened has been closed and is open no more.
C21_ForPidClosesProcess ==
    \A t \in Threads :
        (arg[t].kind = "pid" /\ Constructed(t)) =>
            /\ ProcHandles(t) \cap open = {}
            /\ \A h \in ProcHandles(t) :
                  \E e \in Range(log[t]) : e.call = "CloseHandle" /\ e.h = h

====
